---- MODULE Spec2Model ----
(***************************************************************************)
(* SIC code cleaning engine (src/sic_data.py): Tokenizer, Expander,        *)
(* Single-Code Cleaner, Set Cleaner, Alternative-Candidate Resolver and    *)
(* Codability Classifier.  A Python str is a sequence of one-character     *)
(* strings; a Python set is a set; a Python list is a sequence.            *)
(***************************************************************************)
EXTENDS Integers, Sequences, FiniteSets, TLC

VARIABLES
    input,      \* the call being made: [op |-> ..., its arguments]
    pc,         \* "ready" | "loop" (inside get_codability_level's for) | "done";
                \* prep_model_codes: "primary" | "fill" (its steps 2 and 3)
    result,     \* the value returned to the caller, or [raised |-> exception]
    codes,      \* get_codability_level: the local `codes` (working set)
    level,      \* get_codability_level: index into LEVELS of the next iteration
    cleaned,    \* extract_alt_candidates_n_digit_codes: the local code -> score dict
    log,        \* the warnings emitted by logger.warning, in order
    cfg,        \* prep_model_codes: the local `cfg` (the ModelPrepConfig it works on)
    out_df      \* prep_model_codes: the local `out_df`, one record for each row

vars == <<input, pc, result, codes, level, cleaned, log, cfg, out_df>>

(***************************************************************************)
(* Strings                                                                 *)
(***************************************************************************)
DigitChars == <<"0", "1", "2", "3", "4", "5", "6", "7", "8", "9">>

Digits == {DigitChars[i] : i \in 1..10}

DigitValue(c) == (CHOOSE i \in 1..10 : DigitChars[i] = c) - 1

RECURSIVE IntToStr(_)
IntToStr(x) ==
    IF x < 10 THEN <<DigitChars[x + 1]>>
    ELSE IntToStr(x \div 10) \o <<DigitChars[(x % 10) + 1]>>

RECURSIVE zfill(_, _)
zfill(s, width) == IF Len(s) >= width THEN s ELSE zfill(<<"0">> \o s, width)

RECURSIVE Pow10(_)
Pow10(k) == IF k = 0 THEN 1 ELSE 10 * Pow10(k - 1)

\* s[:k]
Prefix(s, k) == IF k >= Len(s) THEN s ELSE SubSeq(s, 1, k)

RECURSIVE rstrip(_, _)
rstrip(s, chars) ==
    IF Len(s) > 0 /\ s[Len(s)] \in chars THEN rstrip(SubSeq(s, 1, Len(s) - 1), chars)
    ELSE s

isdigit(s) == Len(s) > 0 /\ \A i \in 1..Len(s) : s[i] \in Digits

\* int(s) of a digit string
RECURSIVE StrToInt(_)
StrToInt(s) ==
    IF Len(s) = 0 THEN 0
    ELSE 10 * StrToInt(SubSeq(s, 1, Len(s) - 1)) + DigitValue(s[Len(s)])

(***************************************************************************)
(* Registry                                                                *)
(***************************************************************************)
EXPECTED_CODE_LENGTH == 5

Code(k, width) == zfill(IntToStr(k), width)

SectionLetters ==
    {<<"A">>, <<"B">>, <<"C">>, <<"D">>, <<"E">>, <<"F">>, <<"G">>, <<"H">>,
     <<"I">>, <<"J">>, <<"K">>, <<"L">>, <<"M">>, <<"N">>, <<"O">>, <<"P">>,
     <<"Q">>, <<"R">>, <<"S">>, <<"T">>, <<"U">>}

\* The fixture Registry: the codes the repository's tests rely on.
VALID_SIC_CODES ==
    {Code(k, 5) : k \in {1110, 1420, 1610, 1621, 1629, 2100, 20110, 85100, 85590,
                         86100, 86101, 86102, 86210, 86220, 86230, 86900}}
    \cup {Code(k, 4) : k \in {111, 142, 161, 162, 210, 2011, 8510, 8559,
                              8610, 8621, 8622, 8623, 8690}}
    \cup {Code(k, 3) : k \in {11, 14, 16, 21, 201, 851, 855, 861, 862, 869}}
    \cup {Code(k, 2) : k \in {1, 2, 20, 85, 86}}
    \cup SectionLetters

\* The section of a division number, "" (no entry) for an unused division.
get_sic_section(division) ==
    IF 1 <= division /\ division <= 3 THEN <<"A">>
    ELSE IF 5 <= division /\ division <= 9 THEN <<"B">>
    ELSE IF 10 <= division /\ division <= 33 THEN <<"C">>
    ELSE IF division = 35 THEN <<"D">>
    ELSE IF 36 <= division /\ division <= 39 THEN <<"E">>
    ELSE IF 41 <= division /\ division <= 43 THEN <<"F">>
    ELSE IF 45 <= division /\ division <= 47 THEN <<"G">>
    ELSE IF 49 <= division /\ division <= 53 THEN <<"H">>
    ELSE IF 55 <= division /\ division <= 56 THEN <<"I">>
    ELSE IF 58 <= division /\ division <= 63 THEN <<"J">>
    ELSE IF 64 <= division /\ division <= 66 THEN <<"K">>
    ELSE IF division = 68 THEN <<"L">>
    ELSE IF 69 <= division /\ division <= 75 THEN <<"M">>
    ELSE IF 77 <= division /\ division <= 82 THEN <<"N">>
    ELSE IF division = 84 THEN <<"O">>
    ELSE IF division = 85 THEN <<"P">>
    ELSE IF 86 <= division /\ division <= 88 THEN <<"Q">>
    ELSE IF 90 <= division /\ division <= 93 THEN <<"R">>
    ELSE IF 94 <= division /\ division <= 96 THEN <<"S">>
    ELSE IF 97 <= division /\ division <= 98 THEN <<"T">>
    ELSE IF division = 99 THEN <<"U">>
    ELSE << >>

\* `code in SECTION_LOOKUP`: the keys are the two-digit divisions with a section.
InSectionLookup(code) ==
    Len(code) = 2 /\ isdigit(code) /\ get_sic_section(StrToInt(code)) # << >>

\* SECTION_LOOKUP.get(code, "")
SECTION_LOOKUP(code) == IF InSectionLookup(code) THEN get_sic_section(StrToInt(code)) ELSE << >>

(***************************************************************************)
(* Expander and Single-Code Cleaner                                        *)
(***************************************************************************)
\* Mutant: the enumeration starts at 1 (range(1, 10**fill_digits)).
expand_from_one(input_str, n) ==
    IF n <= Len(input_str) THEN {input_str}
    ELSE LET fill_digits == n - Len(input_str)
         IN  {input_str \o zfill(IntToStr(x), fill_digits) : x \in 1..(Pow10(fill_digits) - 1)}

\* Mutant: the filler is not zero-padded (str(x) without zfill).
expand_unpadded(input_str, n) ==
    IF n <= Len(input_str) THEN {input_str}
    ELSE LET fill_digits == n - Len(input_str)
         IN  {input_str \o IntToStr(x) : x \in 0..(Pow10(fill_digits) - 1)}

expand_to_n_digit_str(input_str, n) ==
    IF n <= Len(input_str) THEN {input_str}
    ELSE LET fill_digits == n - Len(input_str)
         IN  {input_str \o zfill(IntToStr(x), fill_digits) : x \in 0..(Pow10(fill_digits) - 1)}

\* Mutant: nothing is checked against the Registry.
validate_nothing(input_set) == input_set

validate_sic_codes(input_set) == input_set \cap VALID_SIC_CODES

\* Mutant: the slice is one short (input_str[:n_digits - 1]).
clean_one_short_slice(raw_str, n) ==
    LET input_str == rstrip(raw_str, {"x", "X"})
        n_digits == IF n > 0 THEN n ELSE 2
        prep_set == IF Len(input_str) >= n_digits THEN {Prefix(input_str, n_digits - 1)}
                    ELSE expand_to_n_digit_str(input_str, n_digits)
        sections == {SECTION_LOOKUP(code) : code \in {c \in prep_set : InSectionLookup(c)}}
    IN  IF ~isdigit(input_str) THEN {}
        ELSE validate_sic_codes(IF n = 0 THEN sections ELSE prep_set)

\* Mutant: at n = 0 the first digit alone picks the section (input_str[:1] + "0").
clean_one_section_of_decade(raw_str, n) ==
    LET input_str == rstrip(raw_str, {"x", "X"})
        n_digits == IF n > 0 THEN n ELSE 2
        prep_set == IF Len(input_str) >= n_digits
                    THEN {IF n = 0 THEN <<input_str[1], "0">> ELSE Prefix(input_str, n_digits)}
                    ELSE expand_to_n_digit_str(input_str, n_digits)
        sections == {SECTION_LOOKUP(code) : code \in {c \in prep_set : InSectionLookup(c)}}
    IN  IF ~isdigit(input_str) THEN {}
        ELSE validate_sic_codes(IF n = 0 THEN sections ELSE prep_set)

\* Mutant: a code long enough is cut one digit short and expanded again
\* (expand_to_n_digit_str(input_str[:n_digits - 1], n_digits)).
clean_one_reexpands(raw_str, n) ==
    LET input_str == rstrip(raw_str, {"x", "X"})
        n_digits == IF n > 0 THEN n ELSE 2
        prep_set == IF Len(input_str) >= n_digits
                    THEN expand_to_n_digit_str(Prefix(input_str, n_digits - 1), n_digits)
                    ELSE expand_to_n_digit_str(input_str, n_digits)
        sections == {SECTION_LOOKUP(code) : code \in {c \in prep_set : InSectionLookup(c)}}
    IN  IF ~isdigit(input_str) THEN {}
        ELSE validate_sic_codes(IF n = 0 THEN sections ELSE prep_set)

get_clean_n_digit_one_code(raw_str, n) ==
    LET input_str == rstrip(raw_str, {"x", "X"})
        n_digits == IF n > 0 THEN n ELSE 2
        prep_set == IF Len(input_str) >= n_digits THEN {Prefix(input_str, n_digits)}
                    ELSE expand_to_n_digit_str(input_str, n_digits)
        sections == {SECTION_LOOKUP(code) : code \in {c \in prep_set : InSectionLookup(c)}}
    IN  IF ~isdigit(input_str) THEN {}
        ELSE validate_sic_codes(IF n = 0 THEN sections ELSE prep_set)

(***************************************************************************)
(* Set Cleaner                                                             *)
(***************************************************************************)
\* An operation's outcome: what it returns (or raises) and what it logs.
Returned(v, warnings) == [value |-> v, log |-> warnings]

Pair(valid, invalid) == [shape |-> "tuple", cleaned_set |-> valid, invalid_set |-> invalid]

EmptySet == [shape |-> "set", members |-> {}]

Raised(exc) == [shape |-> "raised", exception |-> exc]

\* An iteration order of a set (a Python set iterates in an arbitrary order).
RECURSIVE SetToSeq(_)
SetToSeq(S) ==
    IF S = {} THEN << >>
    ELSE LET x == CHOOSE y \in S : TRUE IN <<x>> \o SetToSeq(S \ {x})

\* The items `for item in input_list` visits, for the collection types iterated.
Items(coll) ==
    IF coll.type = "str" THEN <<coll.value>>
    ELSE IF coll.type = "set" THEN SetToSeq(coll.members)
    ELSE coll.items

\* Mutant: the else is lost, every item is recorded as invalid.
RECURSIVE CleanLoopNoElse(_, _, _, _, _, _)
CleanLoopNoElse(items, n, i, cleaned_set, invalid_set, warnings) ==
    IF i > Len(items) THEN Returned(Pair(cleaned_set, invalid_set), warnings)
    ELSE LET item == items[i]
             res == get_clean_n_digit_one_code(item, n)
         IN  CleanLoopNoElse(items, n, i + 1, cleaned_set \cup res, invalid_set \cup {item},
                             IF res = {}
                             THEN Append(warnings, [msg |-> "has no valid codes", arg |-> item])
                             ELSE warnings)

\* Mutant: the cleaned remnant of the item, not the item, is recorded as invalid.
RECURSIVE CleanLoopRemnant(_, _, _, _, _, _)
CleanLoopRemnant(items, n, i, cleaned_set, invalid_set, warnings) ==
    IF i > Len(items) THEN Returned(Pair(cleaned_set, invalid_set), warnings)
    ELSE LET item == items[i]
             res == get_clean_n_digit_one_code(item, n)
         IN  IF res = {}
             THEN CleanLoopRemnant(items, n, i + 1, cleaned_set,
                                   invalid_set \cup {rstrip(item, {"x", "X"})},
                                   Append(warnings, [msg |-> "has no valid codes", arg |-> item]))
             ELSE CleanLoopRemnant(items, n, i + 1, cleaned_set \cup res, invalid_set, warnings)

\* The for loop of get_clean_n_digit_codes from item i on.
RECURSIVE CleanLoop(_, _, _, _, _, _)
CleanLoop(items, n, i, cleaned_set, invalid_set, warnings) ==
    IF i > Len(items) THEN Returned(Pair(cleaned_set, invalid_set), warnings)
    ELSE LET item == items[i]
             res == get_clean_n_digit_one_code(item, n)
         IN  IF res = {}
             THEN CleanLoop(items, n, i + 1, cleaned_set, invalid_set \cup {item},
                            Append(warnings, [msg |-> "has no valid codes", arg |-> item]))
             ELSE CleanLoop(items, n, i + 1, cleaned_set \cup res, invalid_set, warnings)

\* Mutant: a type error returns the usual pair, both sets empty (return set(), set()).
clean_codes_pair_on_type_error(input_list, n) ==
    IF input_list.type \notin {"str", "set", "list"}
    THEN Returned(Pair({}, {}),
                  <<[msg |-> "Expected a list or set of strings", arg |-> input_list.type]>>)
    ELSE CleanLoop(Items(input_list), n, 1, {}, {}, << >>)

get_clean_n_digit_codes(input_list, n) ==
    IF input_list.type \notin {"str", "set", "list"}
    THEN Returned(EmptySet, <<[msg |-> "Expected a list or set of strings", arg |-> input_list.type]>>)
    ELSE CleanLoop(Items(input_list), n, 1, {}, {}, << >>)

(***************************************************************************)
(* Tokenizer                                                               *)
(***************************************************************************)
INVALID_VALUES ==
    {<<"-", "9">>, <<"4", "+">>, << >>, <<".">>, <<" ">>,
     <<"N", "A", "N">>, <<"N", "a", "N">>, <<"n", "a", "n">>,
     <<"N", "o", "n", "e">>, <<"N", "u", "l", "l">>, <<"<", "N", "A", ">">>}

\* str.strip() removes whitespace; space, tab and newline stand for it.
Whitespace == {" ", "\t", "\n"}

RECURSIVE lstrip(_, _)
lstrip(s, chars) ==
    IF Len(s) > 0 /\ s[1] \in chars THEN lstrip(Tail(s), chars) ELSE s

strip(s) == rstrip(lstrip(s, Whitespace), Whitespace)

\* s.replace(old, "") for a two-character old: left to right, non-overlapping.
RECURSIVE Remove2(_, _)
Remove2(s, old) ==
    IF Len(s) < 2 THEN s
    ELSE IF s[1] = old[1] /\ s[2] = old[2] THEN Remove2(SubSeq(s, 3, Len(s)), old)
    ELSE <<s[1]>> \o Remove2(Tail(s), old)

\* The end of the longest run of characters of `chars` starting at position i.
RECURSIVE RunEnd(_, _, _)
RunEnd(s, i, chars) ==
    IF i <= Len(s) /\ s[i] \in chars THEN RunEnd(s, i + 1, chars) ELSE i

\* re.findall(SIC_REGEX_PATTERN, s) from position i: [0-9]+, then x*, then X*.
RECURSIVE findall(_, _)
findall(s, i) ==
    IF i > Len(s) THEN << >>
    ELSE IF s[i] \in Digits
         THEN LET d == RunEnd(s, i, Digits)
                  l == RunEnd(s, d, {"x"})
                  u == RunEnd(s, l, {"X"})
              IN  <<SubSeq(s, i, u - 1)>> \o findall(s, u)
         ELSE findall(s, i + 1)

\* str(v) of a str, an int or None
str(v) ==
    IF v.type = "str" THEN v.value
    ELSE IF v.type = "int"
         THEN (IF v.number < 0 THEN <<"-">> \o IntToStr(0 - v.number) ELSE IntToStr(v.number))
         ELSE <<"N", "o", "n", "e">>

\* What parse_numerical_code returns and logs, or the exception that leaves it.
Parsed(v, warnings, exc) == [value |-> v, log |-> warnings, raised |-> exc]

\* What re.findall does with the caller's pattern:
\*   "default"    SIC_REGEX_PATTERN;
\*   "malformed"  re.error when compiled, as r"([";
\*   "overflow"   OverflowError when compiled, as r"a{99999999999999999999}";
\*   "groups"     two groups, as r"([0-9]+)(x*)": each match is a tuple, which has no zfill.
Patterns == {"default", "malformed", "overflow", "groups"}

\* Mutant: a sentinel is handed back as a token instead of the empty set.
parse_keeps_sentinel(candidates_str, code_regex_pattern, padding) ==
    LET stripped == strip(str(candidates_str))
        cleaned_str == Remove2(Remove2(stripped, <<"-", "9">>), <<"4", "+">>)
        matches == findall(cleaned_str, 1)
    IN  IF stripped \in INVALID_VALUES THEN Parsed({stripped}, << >>, "none")
        ELSE IF code_regex_pattern = "malformed"
             THEN Parsed({}, <<[msg |-> "Error parsing numerical codes", arg |-> cleaned_str]>>,
                         "none")
        ELSE IF code_regex_pattern = "overflow" THEN Parsed({}, << >>, "OverflowError")
        ELSE IF code_regex_pattern = "groups" /\ Len(matches) > 0
             THEN Parsed({}, << >>, "AttributeError")
             ELSE Parsed({zfill(matches[k], padding) : k \in 1..Len(matches)}, << >>, "none")

\* Mutant: the matches are padded on the right (ljust instead of zfill).
parse_pads_right(candidates_str, code_regex_pattern, padding) ==
    LET stripped == strip(str(candidates_str))
        cleaned_str == Remove2(Remove2(stripped, <<"-", "9">>), <<"4", "+">>)
        matches == findall(cleaned_str, 1)
        ljust(m) == m \o [i \in 1..(padding - Len(m)) |-> "0"]
    IN  IF stripped \in INVALID_VALUES THEN Parsed({}, << >>, "none")
        ELSE IF code_regex_pattern = "malformed"
             THEN Parsed({}, <<[msg |-> "Error parsing numerical codes", arg |-> cleaned_str]>>,
                         "none")
        ELSE IF code_regex_pattern = "overflow" THEN Parsed({}, << >>, "OverflowError")
        ELSE IF code_regex_pattern = "groups" /\ Len(matches) > 0
             THEN Parsed({}, << >>, "AttributeError")
             ELSE Parsed({ljust(matches[k]) : k \in 1..Len(matches)}, << >>, "none")

parse_numerical_code(candidates_str, code_regex_pattern, padding) ==
    LET stripped == strip(str(candidates_str))
        cleaned_str == Remove2(Remove2(stripped, <<"-", "9">>), <<"4", "+">>)
        matches == findall(cleaned_str, 1)
    IN  IF stripped \in INVALID_VALUES THEN Parsed({}, << >>, "none")
        ELSE IF code_regex_pattern = "malformed"
             THEN Parsed({}, <<[msg |-> "Error parsing numerical codes", arg |-> cleaned_str]>>,
                         "none")
        ELSE IF code_regex_pattern = "overflow" THEN Parsed({}, << >>, "OverflowError")
        ELSE IF code_regex_pattern = "groups" /\ Len(matches) > 0
             THEN Parsed({}, << >>, "AttributeError")
             ELSE Parsed({zfill(matches[k], padding) : k \in 1..Len(matches)}, << >>, "none")

(***************************************************************************)
(* Alternative-Candidate Resolver                                          *)
(***************************************************************************)
max(a, b) == IF b > a THEN b ELSE a

\* item.get(key, default) of a dict item
Get(item, key, default) == IF key \in DOMAIN item THEN item[key] ELSE default

\* Mutant: the last candidate's score replaces the recorded one.
MergeLastWins(dict, new_codes, score) ==
    [code \in (DOMAIN dict) \cup new_codes |->
        IF code \in new_codes THEN score ELSE dict[code]]

\* The inner loop `for code in codes`: the dict after recording score for each code.
Merge(dict, new_codes, score) ==
    [code \in (DOMAIN dict) \cup new_codes |->
        IF code \in new_codes
        THEN (IF code \in DOMAIN dict THEN max(dict[code], score) ELSE score)
        ELSE dict[code]]

\* Mutant: a candidate that cleans to a code clears the invalid set gathered so far.
RECURSIVE ResolveLoopClears(_, _, _, _, _)
ResolveLoopClears(items, n, i, dict, invalid_set) ==
    IF i > Len(items) THEN [cleaned |-> dict, invalid_set |-> invalid_set]
    ELSE LET item == items[i]
             raw_code == Get(item, "code", << >>)
             found == get_clean_n_digit_one_code(raw_code, n)
             score == Get(item, "likelihood", 0)
         IN  IF item.type # "dict" THEN ResolveLoopClears(items, n, i + 1, dict, invalid_set)
             ELSE IF found = {}
                  THEN ResolveLoopClears(items, n, i + 1, dict, invalid_set \cup {raw_code})
                  ELSE ResolveLoopClears(items, n, i + 1, Merge(dict, found, score), {})

\* The for loop of extract_alt_candidates_n_digit_codes from item i on.
RECURSIVE ResolveLoop(_, _, _, _, _)
ResolveLoop(items, n, i, dict, invalid_set) ==
    IF i > Len(items) THEN [cleaned |-> dict, invalid_set |-> invalid_set]
    ELSE LET item == items[i]
             raw_code == Get(item, "code", << >>)
             found == get_clean_n_digit_one_code(raw_code, n)
             score == Get(item, "likelihood", 0)
         IN  IF item.type # "dict" THEN ResolveLoop(items, n, i + 1, dict, invalid_set)
             ELSE IF found = {}
                  THEN ResolveLoop(items, n, i + 1, dict, invalid_set \cup {raw_code})
                  ELSE ResolveLoop(items, n, i + 1, Merge(dict, found, score), invalid_set)

\* Mutant: the string is cleaned as one token, without the Tokenizer.
extract_alt_string_untokenized(alt_candidates, n, threshold) ==
    IF alt_candidates.type = "str"
    THEN [cleaned |-> << >>, out |-> get_clean_n_digit_codes(alt_candidates, n)]
    ELSE IF alt_candidates.type \notin {"list", "tuple"}
    THEN [cleaned |-> << >>,
          out |-> Returned(Pair({}, {}),
                           <<[msg |-> "Expected a list of dicts", arg |-> alt_candidates.type]>>)]
    ELSE LET loop == ResolveLoop(alt_candidates.items, n, 1, << >>, {})
             pruned == {code \in DOMAIN loop.cleaned : loop.cleaned[code] >= threshold}
             valid_set == IF Cardinality(pruned) = 1 THEN pruned ELSE DOMAIN loop.cleaned
         IN  [cleaned |-> loop.cleaned, out |-> Returned(Pair(valid_set, loop.invalid_set), << >>)]

\* Mutant: the survivors are always returned (valid_set = pruned).
extract_alt_returns_pruned(alt_candidates, n, threshold) ==
    IF alt_candidates.type = "str"
    THEN LET parsed == parse_numerical_code(alt_candidates, "default", EXPECTED_CODE_LENGTH)
             out == get_clean_n_digit_codes([type |-> "set", members |-> parsed.value], n)
         IN  [cleaned |-> << >>, out |-> Returned(out.value, parsed.log \o out.log)]
    ELSE IF alt_candidates.type \notin {"list", "tuple"}
    THEN [cleaned |-> << >>,
          out |-> Returned(Pair({}, {}),
                           <<[msg |-> "Expected a list of dicts", arg |-> alt_candidates.type]>>)]
    ELSE LET loop == ResolveLoop(alt_candidates.items, n, 1, << >>, {})
             pruned == {code \in DOMAIN loop.cleaned : loop.cleaned[code] >= threshold}
         IN  [cleaned |-> loop.cleaned, out |-> Returned(Pair(pruned, loop.invalid_set), << >>)]

\* Mutant: the survivors are returned whenever there is one (len(pruned) >= 1).
extract_alt_keeps_survivors(alt_candidates, n, threshold) ==
    IF alt_candidates.type = "str"
    THEN LET parsed == parse_numerical_code(alt_candidates, "default", EXPECTED_CODE_LENGTH)
             out == get_clean_n_digit_codes([type |-> "set", members |-> parsed.value], n)
         IN  [cleaned |-> << >>, out |-> Returned(out.value, parsed.log \o out.log)]
    ELSE IF alt_candidates.type \notin {"list", "tuple"}
    THEN [cleaned |-> << >>,
          out |-> Returned(Pair({}, {}),
                           <<[msg |-> "Expected a list of dicts", arg |-> alt_candidates.type]>>)]
    ELSE LET loop == ResolveLoop(alt_candidates.items, n, 1, << >>, {})
             pruned == {code \in DOMAIN loop.cleaned : loop.cleaned[code] >= threshold}
             valid_set == IF Cardinality(pruned) >= 1 THEN pruned ELSE DOMAIN loop.cleaned
         IN  [cleaned |-> loop.cleaned, out |-> Returned(Pair(valid_set, loop.invalid_set), << >>)]

\* The locals and the outcome of extract_alt_candidates_n_digit_codes.
\* Mutant: the threshold test is strict (score > threshold).
extract_alt_prunes_strictly(alt_candidates, n, threshold) ==
    IF alt_candidates.type = "str"
    THEN LET parsed == parse_numerical_code(alt_candidates, "default", EXPECTED_CODE_LENGTH)
             out == get_clean_n_digit_codes([type |-> "set", members |-> parsed.value], n)
         IN  [cleaned |-> << >>, out |-> Returned(out.value, parsed.log \o out.log)]
    ELSE IF alt_candidates.type \notin {"list", "tuple"}
    THEN [cleaned |-> << >>,
          out |-> Returned(Pair({}, {}),
                           <<[msg |-> "Expected a list of dicts", arg |-> alt_candidates.type]>>)]
    ELSE LET loop == ResolveLoop(alt_candidates.items, n, 1, << >>, {})
             pruned == {code \in DOMAIN loop.cleaned : loop.cleaned[code] > threshold}
             valid_set == IF Cardinality(pruned) = 1 THEN pruned ELSE DOMAIN loop.cleaned
         IN  [cleaned |-> loop.cleaned, out |-> Returned(Pair(valid_set, loop.invalid_set), << >>)]

extract_alt_candidates_n_digit_codes(alt_candidates, n, threshold) ==
    IF alt_candidates.type = "str"
    THEN LET parsed == parse_numerical_code(alt_candidates, "default", EXPECTED_CODE_LENGTH)
             out == get_clean_n_digit_codes([type |-> "set", members |-> parsed.value], n)
         IN  [cleaned |-> << >>, out |-> Returned(out.value, parsed.log \o out.log)]
    ELSE IF alt_candidates.type \notin {"list", "tuple"}
    THEN [cleaned |-> << >>,
          out |-> Returned(Pair({}, {}),
                           <<[msg |-> "Expected a list of dicts", arg |-> alt_candidates.type]>>)]
    ELSE LET loop == ResolveLoop(alt_candidates.items, n, 1, << >>, {})
             pruned == {code \in DOMAIN loop.cleaned : loop.cleaned[code] >= threshold}
             valid_set == IF Cardinality(pruned) = 1 THEN pruned ELSE DOMAIN loop.cleaned
         IN  [cleaned |-> loop.cleaned, out |-> Returned(Pair(valid_set, loop.invalid_set), << >>)]

(***************************************************************************)
(* Codability Classifier                                                   *)
(***************************************************************************)
LEVELS ==
    <<[digits |-> 5, label |-> "Sub-class (5-digits)"],
      [digits |-> 4, label |-> "Class (4-digits)"],
      [digits |-> 3, label |-> "Group (3-digits)"],
      [digits |-> 2, label |-> "Division (2-digits)"],
      [digits |-> 0, label |-> "Section (letter)"]>>

\* `not codes`: an empty collection, an empty string and 0 are falsy.
Falsy(coll) ==
    IF coll.type = "str" THEN coll.value = << >>
    ELSE IF coll.type = "set" THEN coll.members = {}
    ELSE IF coll.type = "int" THEN coll.number = 0
    ELSE coll.items = << >>

(***************************************************************************)
(* Model-code preparation (src/prep.py)                                    *)
(***************************************************************************)
ID_COL == "unique_id"

\* _resolve_config, "soft validation": a configured column the frame does not
\* have is set to None.
SoftValidated(config, columns) ==
    [config EXCEPT
        !.codes_col = IF @ # "None" /\ @ \notin columns THEN "None" ELSE @,
        !.alt_codes_col = IF @ # "None" /\ @ \notin columns THEN "None" ELSE @]

\* _process_primary_codes for one row: the pair that goes to out_col and invalid_col.
PrimaryOf(row, config) ==
    IF config.codes_col = "None" THEN Returned(Pair({}, {}), << >>)
    ELSE LET parsed == parse_numerical_code(row[config.codes_col], "default",
                                            EXPECTED_CODE_LENGTH)
             out == get_clean_n_digit_codes([type |-> "set", members |-> parsed.value],
                                            config.digits)
         IN  Returned(out.value, parsed.log \o out.log)

\* Mutant: the alternatives' invalid set replaces the primary's.
FilledOverwrites(row, existing, config) ==
    IF config.alt_codes_col = "None" \/ existing.cleaned_set # {}
    THEN Returned(existing, << >>)
    ELSE LET alt == extract_alt_candidates_n_digit_codes(row[config.alt_codes_col],
                                                         config.digits, config.threshold).out
         IN  Returned(Pair(alt.value.cleaned_set, alt.value.invalid_set), alt.log)

\* _fill_missing_from_alternatives for one row: a row outside miss_msk keeps
\* what it has, a row inside takes the Resolver's valid set and adds its
\* invalid set to the existing one.
FilledOf(row, existing, config) ==
    IF config.alt_codes_col = "None" \/ existing.cleaned_set # {}
    THEN Returned(existing, << >>)
    ELSE LET alt == extract_alt_candidates_n_digit_codes(row[config.alt_codes_col],
                                                         config.digits, config.threshold).out
         IN  Returned(Pair(alt.value.cleaned_set,
                           existing.invalid_set \cup alt.value.invalid_set), alt.log)

\* The warnings of the rows' outcomes, in row order.
RECURSIVE LogsOf(_, _)
LogsOf(outcomes, i) ==
    IF i > Len(outcomes) THEN << >> ELSE outcomes[i].log \o LogsOf(outcomes, i + 1)

\* A row of out_df.
OutRow(i, pair) ==
    [unique_id |-> i, model_codes |-> pair.cleaned_set,
     model_codes_invalid |-> pair.invalid_set]

\* The (valid, invalid) pair held by a row of out_df.
PairOf(out_row) == Pair(out_row.model_codes, out_row.model_codes_invalid)

(***************************************************************************)
(* Deterministic serialization (src/Refactored_Notebook_Code.py)           *)
(***************************************************************************)
\* The for loop of flatten_to_sorted_list from item i on: a list, set or tuple
\* is extended into flat_item, anything else is appended.
RECURSIVE FlattenLoop(_, _)
FlattenLoop(data_structure, i) ==
    IF i > Len(data_structure) THEN << >>
    ELSE LET item == data_structure[i]
         IN  (IF item.type \in {"list", "set", "tuple"} THEN Items(item) ELSE <<item>>)
             \o FlattenLoop(data_structure, i + 1)

\* Items of one kind compare by their key; items of two kinds make sorted() raise TypeError.
Comparable(S) == \A x \in S, y \in S : x.type = y.type

\* sorted(...) of a set of comparable items.
RECURSIVE sorted(_)
sorted(S) ==
    IF S = {} THEN << >>
    ELSE LET least == CHOOSE x \in S : \A y \in S : x.key <= y.key
         IN  <<least>> \o sorted(S \ {least})

\* Mutant: the duplicates are kept (sorted(flat_item) without set()).
RECURSIVE SortedWithDuplicates(_)
SortedWithDuplicates(flat_item) ==
    IF flat_item = << >> THEN << >>
    ELSE LET k == CHOOSE i \in 1..Len(flat_item) :
                      \A j \in 1..Len(flat_item) : flat_item[i].key <= flat_item[j].key
         IN  <<flat_item[k]>>
             \o SortedWithDuplicates([j \in 1..(Len(flat_item) - 1) |->
                                         IF j < k THEN flat_item[j] ELSE flat_item[j + 1]])

\* Mutant of flatten_to_sorted_list: see SortedWithDuplicates.
flatten_keeps_duplicates(data_structure) ==
    LET flat_item == FlattenLoop(data_structure, 1)
        members == {flat_item[k] : k \in 1..Len(flat_item)}
    IN  IF Comparable(members) THEN SortedWithDuplicates(flat_item) ELSE flat_item

flatten_to_sorted_list(data_structure) ==
    LET flat_item == FlattenLoop(data_structure, 1)
        members == {flat_item[k] : k \in 1..Len(flat_item)}
    IN  IF Comparable(members) THEN sorted(members) ELSE flat_item

(***************************************************************************)
(* The calls made on the engine                                            *)
(***************************************************************************)
MaxTokens == 2      \* longest token collection given to a call
MaxCands == 2       \* longest candidate list given to the Resolver
MaxRawLen == 3      \* longest raw string given to the Tokenizer
MaxRows == 2        \* most rows of a frame given to prep_model_codes
MaxParts == 2       \* most sets or lists in a collection given to flatten_to_sorted_list
MaxMembers == 2     \* most members of one of these sets or lists

Wild(s, k) == s \o [i \in 1..k |-> "x"]

\* Raw tokens: registered codes, short and wildcarded codes, over-long codes,
\* unregistered codes, a section letter and garbage.
TokenUniverse ==
    {Code(86101, 5), Code(86210, 5), Code(1621, 5), Code(8610, 4), Code(86, 2),
     Wild(Code(86, 2), 3), Code(861012, 6), Code(12345, 5), Wild(Code(1234, 4), 1),
     <<"Q">>, <<"B", "a", "d", "1">>, << >>, <<"8", "6", "X", "x">>}

\* The code sets the Classifier is given: codes of every level, an unregistered
\* code and garbage.
CodeUniverse ==
    {Code(1621, 5), Code(86101, 5), Code(8610, 4), Code(162, 4), Code(16, 3), Code(861, 3),
     Code(1, 2), Code(2, 2), Code(12345, 5), <<"B", "a", "d", "1">>}

\* Tokens given alone, never in a collection: one-digit tokens (10^4 five-digit
\* expansions each), divisions without a section, a wildcard inside the digits.
SingleTokens ==
    TokenUniverse
    \cup {Wild(Code(2, 1), 4), Code(0, 1), Wild(Code(4, 1), 1), Code(4, 2), Code(34123, 5),
          <<"8", "6", "x", "0", "1">>}

Widths == 0..EXPECTED_CODE_LENGTH

Lists(S, maxlen) == UNION {[1..k -> S] : k \in 0..maxlen}

Subsets(S, maxlen) == {T \in SUBSET S : Cardinality(T) <= maxlen}

\* What a caller may pass where a collection of at most maxlen tokens is expected.
Collections(singles, tokens, maxlen) ==
    {[type |-> "str", value |-> t] : t \in singles}
    \cup {[type |-> "list", items |-> l] : l \in Lists(tokens, maxlen)}
    \cup {[type |-> "set", members |-> m] : m \in Subsets(tokens, maxlen)}
    \cup {[type |-> "tuple", items |-> l] : l \in Lists(tokens, 1)}
    \cup {[type |-> "int", number |-> v] : v \in {0, 3}}

RawChars == {"8", "6", "x", "X", "-", "9", "4", "+", " ", ";"}

RawStrings(maxlen) == Lists(RawChars, maxlen)

CandCodes == {Code(86101, 5), Code(861012, 6), Code(86210, 5), Code(8610, 4), Code(12345, 5)}

Likelihoods == {-1, 6, 8}   \* in tenths

Thresholds == {-5, 0, 7, 9} \* in tenths

CandItems ==
    {[type |-> "dict", code |-> c, likelihood |-> l] : c \in CandCodes, l \in Likelihoods}
    \cup {[type |-> "dict", code |-> c] : c \in CandCodes}
    \cup {[type |-> "dict", likelihood |-> l] : l \in Likelihoods}
    \cup {[type |-> "str"]}

\* Plain strings given where the list of candidate records is expected.
CandStrings ==
    {Code(86101, 5), Code(1420, 4), Wild(Code(86, 2), 1), Code(12345, 5), << >>,
     <<"n", "a", "n">>, <<"B", "a", "d", "1">>,
     Code(86101, 5) \o <<";">> \o Code(86210, 5) \o <<";">> \o <<"4", "+">>}

Candidates(maxlen) ==
    {[type |-> "list", items |-> l] : l \in Lists(CandItems, maxlen)}
    \cup {[type |-> "tuple", items |-> l] : l \in Lists(CandItems, 1)}
    \cup {[type |-> "str", value |-> s] : s \in CandStrings}
    \cup {[type |-> "int", number |-> 3]}

\* A sentinel value, bare or with whitespace around it.
SentinelStrings ==
    {l \o v \o r : l \in Lists(Whitespace, 1), v \in INVALID_VALUES, r \in Lists(Whitespace, 1)}

\* Codes given as numbers (a spreadsheet cell read as an integer).
Numbers == {0, 3, 86, 1420, 86101, 861012, -9, -986}

Paddings == {2, EXPECTED_CODE_LENGTH}

\* What a caller may pass as candidates_str: a string, an int or None.
RawValues(maxlen) ==
    {[type |-> "str", value |-> s] : s \in RawStrings(maxlen) \cup SentinelStrings}
    \cup {[type |-> "int", number |-> k] : k \in Numbers}
    \cup {[type |-> "NoneType"]}

TokenizerCalls(maxlen) ==
    {[op |-> "parse_numerical_code", candidates_str |-> v, code_regex_pattern |-> p,
      padding |-> w] : v \in RawValues(maxlen), p \in Patterns, w \in Paddings}

CleanerCalls(maxlen) ==
    {[op |-> "get_clean_n_digit_one_code", input_str |-> t, n |-> n] :
        t \in SingleTokens, n \in Widths}
    \cup {[op |-> "get_clean_n_digit_codes", input_list |-> c, n |-> n, again |-> FALSE] :
            c \in Collections(SingleTokens, TokenUniverse, maxlen), n \in Widths}

\* Tokens handed to the Expander: empty, shorter than, as long as and longer than n.
ExpanderTokens ==
    {<< >>, Code(8, 1), Code(86, 2), Code(1, 2), Code(861, 3), Code(8610, 4), Code(86101, 5),
     Code(861012, 6), <<"a", "b">>}

ExpanderCalls ==
    {[op |-> "expand_to_n_digit_str", input_str |-> t, n |-> n] :
        t \in ExpanderTokens, n \in Widths}

ResolverCalls(maxlen) ==
    {[op |-> "extract_alt_candidates_n_digit_codes", alt_candidates |-> c, n |-> n,
      threshold |-> t] : c \in Candidates(maxlen), n \in {0, 4, 5}, t \in Thresholds}

\* Candidate lists for the reordering of the Resolver's input: a code and a
\* wildcard-free prefix of it, a code of another class, an unregistered code,
\* records without a code or without a likelihood, and an item that is no record.
ReorderItems ==
    {[type |-> "dict", code |-> c, likelihood |-> l] :
        c \in {Code(86101, 5), Code(8610, 4), Code(86210, 5), Code(12345, 5)}, l \in {6, 8}}
    \cup {[type |-> "dict", code |-> Code(86101, 5)], [type |-> "dict", likelihood |-> 8],
          [type |-> "str"]}

ReorderCalls(maxlen) ==
    {[op |-> "extract_alt_candidates_n_digit_codes",
      alt_candidates |-> [type |-> "list", items |-> l], n |-> n, threshold |-> t] :
        l \in Lists(ReorderItems, maxlen), n \in {0, 4, 5}, t \in Thresholds}

ClassifierCalls(maxlen) ==
    {[op |-> "get_codability_level", codes |-> c] :
        c \in Collections(CodeUniverse, CodeUniverse, maxlen)}

\* The primary code of a row: a valid code, a valid and an unregistered code,
\* an unregistered code, nothing.
PrepPrimaries ==
    {[type |-> "str", value |-> Code(86101, 5)],
     [type |-> "str", value |-> Code(1420, 4) \o <<";">> \o Code(12345, 5)],
     [type |-> "str", value |-> Code(12345, 5)],
     [type |-> "NoneType"]}

\* The alternative candidates of a row: two valid codes, a valid code and
\* garbage, nothing.
PrepAlternatives ==
    {[type |-> "list",
      items |-> <<[type |-> "dict", code |-> Code(86101, 5), likelihood |-> 8],
                  [type |-> "dict", code |-> Code(86210, 5), likelihood |-> 6]>>],
     [type |-> "list",
      items |-> <<[type |-> "dict", code |-> Code(86210, 5), likelihood |-> 8],
                  [type |-> "dict", code |-> <<"B", "a", "d", "1">>, likelihood |-> 6]>>],
     [type |-> "NoneType"]}

PrepRows ==
    {[initial_code |-> p, alt_sic_candidates |-> a] : p \in PrepPrimaries, a \in PrepAlternatives}

\* The columns of the frame: all of them, or one of them missing, or both code columns.
PrepColumns ==
    {{ID_COL, "initial_code", "alt_sic_candidates"}, {ID_COL, "initial_code"},
     {ID_COL, "alt_sic_candidates"}, {"initial_code", "alt_sic_candidates"}, {ID_COL}}

DataFrames(maxrows) ==
    {[columns |-> c, rows |-> r] :
        c \in PrepColumns, r \in UNION {[1..k -> PrepRows] : k \in 1..maxrows}}

PrepConfigs ==
    {[codes_col |-> c, alt_codes_col |-> a, threshold |-> t, digits |-> EXPECTED_CODE_LENGTH] :
        c \in {"initial_code", "None"}, a \in {"alt_sic_candidates", "None"}, t \in {0, 7}}

\* prep_model_codes called with a ModelPrepConfig ("config") or with the
\* settings as separate arguments ("legacy"); given is the configuration as the
\* caller wrote it.
PrepCalls(maxrows) ==
    {[op |-> "prep_model_codes", input_df |-> df, style |-> st, config |-> c, given |-> c] :
        df \in DataFrames(maxrows), st \in {"config", "legacy"}, c \in PrepConfigs}

\* The items that are flattened: numbers, and a string that no number compares with.
FlatItems ==
    {[type |-> "int", key |-> k] : k \in {1, 2, 5}} \cup {[type |-> "str", key |-> 1]}

\* A list or a set of items.
FlatParts ==
    {[type |-> "list", items |-> l] : l \in Lists(FlatItems, MaxMembers)}
    \cup {[type |-> "set", members |-> m] : m \in Subsets(FlatItems, MaxMembers)}

FlattenCalls(maxlen) ==
    {[op |-> "flatten_to_sorted_list", data_structure |-> d] : d \in Lists(FlatParts, maxlen)}

AllCalls(tokens, cands, rawlen, rows, parts) ==
    TokenizerCalls(rawlen) \cup ExpanderCalls \cup CleanerCalls(tokens) \cup ResolverCalls(cands)
    \cup ClassifierCalls(tokens) \cup PrepCalls(rows) \cup FlattenCalls(parts)

NoCodes == [type |-> "set", members |-> {}]

\* No ModelPrepConfig has been resolved yet.
NoConfig == [codes_col |-> "None", alt_codes_col |-> "None", threshold |-> 0, digits |-> 0]

InitOf(calls) ==
    /\ input \in calls
    /\ pc = "ready"
    /\ result = [shape |-> "none"]
    /\ codes = NoCodes
    /\ level = 1
    /\ cleaned = << >>
    /\ log = << >>
    /\ cfg = NoConfig
    /\ out_df = << >>

Init == InitOf(AllCalls(MaxTokens, MaxCands, MaxRawLen, MaxRows, MaxParts))

Return(outcome) ==
    /\ result' = outcome.value
    /\ log' = log \o outcome.log
    /\ pc' = "done"

Tokenize ==
    /\ pc = "ready"
    /\ input.op = "parse_numerical_code"
    /\ LET out == parse_numerical_code(input.candidates_str, input.code_regex_pattern,
                                       input.padding)
       IN  IF out.raised # "none" THEN Return(Returned(Raised(out.raised), out.log))
           ELSE Return(Returned([shape |-> "set", members |-> out.value], out.log))
    /\ UNCHANGED <<input, codes, level, cleaned, cfg, out_df>>

Expand ==
    /\ pc = "ready"
    /\ input.op = "expand_to_n_digit_str"
    /\ Return(Returned([shape |-> "set",
                        members |-> expand_to_n_digit_str(input.input_str, input.n)], << >>))
    /\ UNCHANGED <<input, codes, level, cleaned, cfg, out_df>>

CleanOne ==
    /\ pc = "ready"
    /\ input.op = "get_clean_n_digit_one_code"
    /\ Return(Returned([shape |-> "set",
                        members |-> get_clean_n_digit_one_code(input.input_str, input.n)], << >>))
    /\ UNCHANGED <<input, codes, level, cleaned, cfg, out_df>>

CleanSet ==
    /\ pc = "ready"
    /\ input.op = "get_clean_n_digit_codes"
    /\ Return(get_clean_n_digit_codes(input.input_list, input.n))
    /\ UNCHANGED <<input, codes, level, cleaned, cfg, out_df>>

\* The caller cleans the valid set it got again, at the same digit-width.
CleanAgain ==
    /\ pc = "done"
    /\ input.op = "get_clean_n_digit_codes"
    /\ result.shape = "tuple"
    /\ ~input.again
    /\ input' = [op |-> "get_clean_n_digit_codes",
                 input_list |-> [type |-> "set", members |-> result.cleaned_set],
                 n |-> input.n, again |-> TRUE]
    /\ Return(get_clean_n_digit_codes(input'.input_list, input.n))
    /\ UNCHANGED <<codes, level, cleaned, cfg, out_df>>

Resolve ==
    /\ pc = "ready"
    /\ input.op = "extract_alt_candidates_n_digit_codes"
    /\ LET r == extract_alt_candidates_n_digit_codes(input.alt_candidates, input.n,
                                                     input.threshold)
       IN  /\ cleaned' = r.cleaned
           /\ Return(r.out)
    /\ UNCHANGED <<input, codes, level, cfg, out_df>>

\* prep_model_codes step 1, _resolve_config: cfg is the caller's ModelPrepConfig
\* itself when one was given, a new one otherwise.
ResolveConfig ==
    /\ pc = "ready"
    /\ input.op = "prep_model_codes"
    /\ IF ID_COL \notin input.input_df.columns
       THEN /\ Return(Returned(Raised("ValueError"), << >>))
            /\ UNCHANGED <<input, cfg>>
       ELSE LET validated == SoftValidated(input.config, input.input_df.columns)
            IN  /\ cfg' = validated
                /\ input' = IF input.style = "config"
                            THEN [input EXCEPT !.config = validated]
                            ELSE input
                /\ IF validated.codes_col = "None" /\ validated.alt_codes_col = "None"
                   THEN Return(Returned(Raised("ValueError"), << >>))
                   ELSE pc' = "primary" /\ UNCHANGED <<result, log>>
    /\ UNCHANGED <<codes, level, cleaned, out_df>>

\* prep_model_codes step 2, _process_primary_codes.
ProcessPrimary ==
    /\ pc = "primary"
    /\ LET rows == input.input_df.rows
           outcomes == [i \in 1..Len(rows) |-> PrimaryOf(rows[i], cfg)]
       IN  /\ out_df' = [i \in 1..Len(rows) |-> OutRow(i, outcomes[i].value)]
           /\ log' = log \o LogsOf(outcomes, 1)
    /\ pc' = "fill"
    /\ UNCHANGED <<input, result, codes, level, cleaned, cfg>>

\* prep_model_codes steps 3 and 4, _fill_missing_from_alternatives and the return.
FillMissing ==
    /\ pc = "fill"
    /\ LET rows == input.input_df.rows
           outcomes == [i \in 1..Len(rows) |-> FilledOf(rows[i], PairOf(out_df[i]), cfg)]
       IN  /\ out_df' = [i \in 1..Len(rows) |-> OutRow(i, outcomes[i].value)]
           /\ Return(Returned([shape |-> "frame", rows |-> out_df'], LogsOf(outcomes, 1)))
    /\ UNCHANGED <<input, codes, level, cleaned, cfg>>

\* get_codability_level up to the for loop: `if not codes: return "Uncodable"`.
ClassifyEnter ==
    /\ pc = "ready"
    /\ input.op = "get_codability_level"
    /\ codes' = input.codes
    /\ level' = 1
    /\ IF Falsy(input.codes)
       THEN Return(Returned([shape |-> "str", label |-> "Uncodable"], << >>))
       ELSE pc' = "loop" /\ UNCHANGED <<result, log>>
    /\ UNCHANGED <<input, cleaned, cfg, out_df>>

\* The tokens of a collection, as a set.
TokensOf(coll) ==
    IF coll.type = "str" THEN {coll.value}
    ELSE IF coll.type = "set" THEN coll.members
    ELSE IF coll.type = "int" THEN {}
    ELSE {coll.items[i] : i \in 1..Len(coll.items)}

\* Mutant: the loop returns when at most one code is left (len(codes) <= 1).
ClassifyLevelAtMostOne ==
    /\ pc = "loop"
    /\ LET out == get_clean_n_digit_codes(codes, LEVELS[level].digits)
           warn == IF out.value.shape = "tuple" /\ out.value.invalid_set # {}
                   THEN <<[msg |-> "invalid codes", arg |-> out.value.invalid_set]>>
                   ELSE << >>
       IN  IF out.value.shape # "tuple"
           THEN \* `codes, invalid_codes = set()` cannot unpack
                /\ Return(Returned(Raised("ValueError"), out.log))
                /\ UNCHANGED <<codes, level>>
           ELSE /\ codes' = [type |-> "set", members |-> out.value.cleaned_set]
                /\ IF Cardinality(out.value.cleaned_set) <= 1
                   THEN /\ Return(Returned([shape |-> "str", label |-> LEVELS[level].label],
                                           out.log \o warn))
                        /\ UNCHANGED level
                   ELSE IF level = Len(LEVELS)
                   THEN /\ Return(Returned([shape |-> "str", label |-> "Uncodable"],
                                           out.log \o warn))
                        /\ UNCHANGED level
                   ELSE /\ level' = level + 1
                        /\ log' = log \o out.log \o warn
                        /\ UNCHANGED <<pc, result>>
    /\ UNCHANGED <<input, cleaned, cfg, out_df>>

\* Mutant: the test reads the working set of the previous level.
ClassifyLevelStale ==
    /\ pc = "loop"
    /\ LET out == get_clean_n_digit_codes(codes, LEVELS[level].digits)
           warn == IF out.value.shape = "tuple" /\ out.value.invalid_set # {}
                   THEN <<[msg |-> "invalid codes", arg |-> out.value.invalid_set]>>
                   ELSE << >>
       IN  IF out.value.shape # "tuple"
           THEN \* `codes, invalid_codes = set()` cannot unpack
                /\ Return(Returned(Raised("ValueError"), out.log))
                /\ UNCHANGED <<codes, level>>
           ELSE /\ codes' = [type |-> "set", members |-> out.value.cleaned_set]
                /\ IF Cardinality(TokensOf(codes)) = 1
                   THEN /\ Return(Returned([shape |-> "str", label |-> LEVELS[level].label],
                                           out.log \o warn))
                        /\ UNCHANGED level
                   ELSE IF level = Len(LEVELS)
                   THEN /\ Return(Returned([shape |-> "str", label |-> "Uncodable"],
                                           out.log \o warn))
                        /\ UNCHANGED level
                   ELSE /\ level' = level + 1
                        /\ log' = log \o out.log \o warn
                        /\ UNCHANGED <<pc, result>>
    /\ UNCHANGED <<input, cleaned, cfg, out_df>>

\* One iteration of the for loop, and the return after the last one.
ClassifyLevel ==
    /\ pc = "loop"
    /\ LET out == get_clean_n_digit_codes(codes, LEVELS[level].digits)
           warn == IF out.value.shape = "tuple" /\ out.value.invalid_set # {}
                   THEN <<[msg |-> "invalid codes", arg |-> out.value.invalid_set]>>
                   ELSE << >>
       IN  IF out.value.shape # "tuple"
           THEN \* `codes, invalid_codes = set()` cannot unpack
                /\ Return(Returned(Raised("ValueError"), out.log))
                /\ UNCHANGED <<codes, level>>
           ELSE /\ codes' = [type |-> "set", members |-> out.value.cleaned_set]
                /\ IF Cardinality(out.value.cleaned_set) = 1
                   THEN /\ Return(Returned([shape |-> "str", label |-> LEVELS[level].label],
                                           out.log \o warn))
                        /\ UNCHANGED level
                   ELSE IF level = Len(LEVELS)
                   THEN /\ Return(Returned([shape |-> "str", label |-> "Uncodable"],
                                           out.log \o warn))
                        /\ UNCHANGED level
                   ELSE /\ level' = level + 1
                        /\ log' = log \o out.log \o warn
                        /\ UNCHANGED <<pc, result>>
    /\ UNCHANGED <<input, cleaned, cfg, out_df>>

Flatten ==
    /\ pc = "ready"
    /\ input.op = "flatten_to_sorted_list"
    /\ Return(Returned([shape |-> "list", items |-> flatten_to_sorted_list(input.data_structure)],
                       << >>))
    /\ UNCHANGED <<input, codes, level, cleaned, cfg, out_df>>

Next ==
    \/ Tokenize
    \/ Expand
    \/ CleanOne
    \/ CleanSet
    \/ CleanAgain
    \/ Resolve
    \/ ClassifyEnter
    \/ ClassifyLevel
    \/ ResolveConfig
    \/ ProcessPrimary
    \/ FillMissing
    \/ Flatten

Spec == Init /\ [][Next]_vars

\* The engine's operations, each under the calls made on it alone.
NextTokenizer == Tokenize

SpecTokenizer == InitOf(TokenizerCalls(MaxRawLen)) /\ [][NextTokenizer]_vars

NextCleaner == Expand \/ CleanOne \/ CleanSet \/ CleanAgain

SpecCleaner == InitOf(ExpanderCalls \cup CleanerCalls(MaxTokens)) /\ [][NextCleaner]_vars

NextResolver == Resolve

SpecResolver == InitOf(ResolverCalls(MaxCands)) /\ [][NextResolver]_vars

\* The operations that hand Normalized Codes to a caller.
NextCleaning == CleanOne \/ CleanSet \/ CleanAgain \/ Resolve

SpecCleaning ==
    InitOf(CleanerCalls(MaxTokens) \cup ResolverCalls(1) \cup ReorderCalls(MaxCands))
    /\ [][NextCleaning]_vars

NextClassifier == ClassifyEnter \/ ClassifyLevel

SpecClassifier == InitOf(ClassifierCalls(MaxTokens)) /\ [][NextClassifier]_vars

SpecReorder == InitOf(ReorderCalls(MaxCands)) /\ [][NextResolver]_vars

NextFlatten == Flatten

SpecFlatten == InitOf(FlattenCalls(MaxParts)) /\ [][NextFlatten]_vars

NextPrep == ResolveConfig \/ ProcessPrimary \/ FillMissing

SpecPrep == InitOf(PrepCalls(MaxRows)) /\ [][NextPrep]_vars

(***************************************************************************)
(* Properties of the Set Cleaner and the Single-Code Cleaner               *)
(***************************************************************************)
\* get_clean_n_digit_codes has returned its (valid, invalid) pair.
CleanerReturned ==
    pc = "done" /\ input.op = "get_clean_n_digit_codes" /\ result.shape = "tuple"

\* C1 as stated: for every input and every n, 0 included, the valid code set and
\* the invalid token set returned by get_clean_n_digit_codes are disjoint.
C1_DisjointAtEveryWidth ==
    CleanerReturned => result.cleaned_set \cap result.invalid_set = {}

\* C1 amended: the valid code set and the invalid token set are disjoint for every
\* n > 0, and for n = 0 whenever no input token is itself a section letter.
C1_Disjoint ==
    (CleanerReturned
        /\ (input.n > 0 \/ TokensOf(input.input_list) \cap SectionLetters = {}))
    => result.cleaned_set \cap result.invalid_set = {}

C1_Witness ==
    /\ CleanerReturned
    /\ ~input.again
    /\ input.n > 0
    /\ result.cleaned_set # {}
    /\ result.invalid_set # {}

\* C2 as stated: for every n, 0 included, cleaning a returned valid set V again
\* at the same n returns exactly (V, empty invalid set).
C2_IdempotentAtEveryWidth ==
    (CleanerReturned /\ input.again) => result = Pair(input.input_list.members, {})

\* C2 amended: for every n > 0, cleaning a returned valid set V again at the
\* same n returns exactly (V, empty invalid set).
C2_Idempotent ==
    (CleanerReturned /\ input.again /\ input.n > 0)
    => result = Pair(input.input_list.members, {})

C2_Witness ==
    /\ CleanerReturned
    /\ input.again
    /\ input.n > 0
    /\ Cardinality(input.input_list.members) > 1

IsPrefix(p, c) == Len(p) <= Len(c) /\ SubSeq(c, 1, Len(p)) = p

\* The Registry codes of length n a digit string p stands for.
RegistryCodesOf(p, n) ==
    {c \in VALID_SIC_CODES :
        /\ Len(c) = n
        /\ IF Len(p) < n THEN IsPrefix(p, c) ELSE c = SubSeq(p, 1, n)}

C9_Coverage ==
    CleanerReturned =>
        LET tokens == TokensOf(input.input_list)
            one(t) == get_clean_n_digit_one_code(t, input.n)
        IN  /\ \A t \in tokens :
                \/ one(t) # {} /\ one(t) \subseteq result.cleaned_set
                \/ t \in result.invalid_set
            /\ result.invalid_set = {t \in tokens : one(t) = {}}
            /\ result.cleaned_set = UNION {one(t) : t \in tokens}

C9_Witness ==
    /\ CleanerReturned
    /\ ~input.again
    /\ Wild(Code(1234, 4), 1) \in result.invalid_set
    /\ Cardinality(result.cleaned_set) > 1

(***************************************************************************)
(* Properties of the Resolver                                              *)
(***************************************************************************)
\* extract_alt_candidates_n_digit_codes has returned from its candidate loop.
ResolverReturned ==
    /\ pc = "done"
    /\ input.op = "extract_alt_candidates_n_digit_codes"
    /\ input.alt_candidates.type \in {"list", "tuple"}

Records == input.alt_candidates.items

DictIndexes == {i \in 1..Len(Records) : Records[i].type = "dict"}

CodesOf(i) == get_clean_n_digit_one_code(Get(Records[i], "code", << >>), input.n)

LikelihoodOf(i) == Get(Records[i], "likelihood", 0)

AllCleaned == UNION {CodesOf(i) : i \in DictIndexes}

\* The codes whose merged score passes the threshold test.
Survivors == {code \in DOMAIN cleaned : cleaned[code] >= input.threshold}

MaxOf(S) == CHOOSE m \in S : \A x \in S : x <= m

\* C4: a code's merged score is the maximum of the likelihoods of the candidates
\* that clean to it, so it passes the threshold test exactly when at least one of
\* them has likelihood >= threshold.
C4_DuplicateRule ==
    ResolverReturned =>
        \A code \in DOMAIN cleaned :
            LET from == {i \in DictIndexes : code \in CodesOf(i)}
            IN  /\ cleaned[code] = MaxOf({LikelihoodOf(i) : i \in from})
                /\ (code \in Survivors) <=>
                       (\E i \in from : LikelihoodOf(i) >= input.threshold)

C4_Witness ==
    /\ ResolverReturned
    /\ \E i, j \in DictIndexes :
           /\ i < j
           /\ CodesOf(i) \cap CodesOf(j) # {}
           /\ LikelihoodOf(i) > LikelihoodOf(j)
           /\ LikelihoodOf(j) < input.threshold
           /\ input.threshold <= LikelihoodOf(i)

(***************************************************************************)
(* Properties of the Codability Classifier                                 *)
(***************************************************************************)
\* The Set Cleaner's valid set for a set of tokens.
ValidAt(tokens, n) == UNION {get_clean_n_digit_one_code(t, n) : t \in tokens}

\* The working set after the first k levels.
RECURSIVE Working(_, _)
Working(tokens, k) ==
    IF k = 0 THEN tokens ELSE ValidAt(Working(tokens, k - 1), LEVELS[k].digits)

\* The label of the first level from k on at which the working set W has exactly
\* one member after cleaning.
RECURSIVE FirstSingle(_, _)
FirstSingle(W, k) ==
    IF k > Len(LEVELS) THEN "Uncodable"
    ELSE LET next == ValidAt(W, LEVELS[k].digits)
         IN  IF Cardinality(next) = 1 THEN LEVELS[k].label ELSE FirstSingle(next, k + 1)

\* get_codability_level is running on a string, list or set.
Classifying ==
    input.op = "get_codability_level" /\ input.codes.type \in {"str", "list", "set"}

\* C5: the levels are visited in the order 5, 4, 3, 2, 0, the working set being
\* replaced at each by the Set Cleaner's valid set, and the label returned is
\* that of the first level with exactly one member, "Uncodable" for an empty
\* input or when no level has exactly one.
C5_FirstSingleLevel ==
    Classifying =>
        /\ pc = "loop" =>
              /\ TokensOf(codes) = Working(TokensOf(input.codes), level - 1)
              /\ level > 1 => Cardinality(TokensOf(codes)) # 1
        /\ pc = "done" =>
              result.label = IF TokensOf(input.codes) = {} THEN "Uncodable"
                             ELSE FirstSingle(TokensOf(input.codes), 1)

C5_Witness ==
    /\ Classifying
    /\ pc = "done"
    /\ level = 4
    /\ Cardinality(TokensOf(input.codes)) = 2
    /\ result.label = "Division (2-digits)"

\* The levels at which the set of candidate codes collapses to exactly one code.
Collapsing ==
    {k \in 1..Len(LEVELS) : Cardinality(Working(TokensOf(input.codes), k)) = 1}

LevelOf(label) == CHOOSE k \in 1..Len(LEVELS) : LEVELS[k].label = label

\* C6 as stated: the label returned is the coarsest level (fewest digits) at
\* which the set of candidate codes collapses to exactly one code.
C6_CoarsestCollapsingLevel ==
    (Classifying /\ pc = "done" /\ Collapsing # {}) =>
        /\ result.label # "Uncodable"
        /\ LevelOf(result.label) \in Collapsing
        /\ \A k \in Collapsing : LEVELS[LevelOf(result.label)].digits <= LEVELS[k].digits

\* C6 amended: the label returned is the finest level (most digits) at which the
\* set of candidate codes collapses to exactly one code.
C6_FinestCollapsingLevel ==
    (Classifying /\ pc = "done" /\ Collapsing # {}) =>
        /\ result.label # "Uncodable"
        /\ LevelOf(result.label) \in Collapsing
        /\ \A k \in Collapsing : LEVELS[LevelOf(result.label)].digits >= LEVELS[k].digits

C6_Witness ==
    /\ Classifying
    /\ pc = "done"
    /\ result.label = "Class (4-digits)"
    /\ Cardinality(Collapsing) = 4

(***************************************************************************)
(* Properties of every operation                                           *)
(***************************************************************************)
\* C7: no operation raises to its caller, whatever the shape of its input.
C7_NoOperationRaises == pc = "done" => result.shape # "raised"

(***************************************************************************)
(* Properties of the Tokenizer                                             *)
(***************************************************************************)
\* s[i..j] is one or more digits followed by zero or more x/X in any mix of case.
IsCodeRun(s, i, j) ==
    \E d \in i..j :
        /\ \A k \in i..d : s[k] \in Digits
        /\ \A k \in (d + 1)..j : s[k] \in {"x", "X"}

MaximalRuns(s) ==
    {r \in (1..Len(s)) \X (1..Len(s)) :
        /\ r[1] <= r[2]
        /\ IsCodeRun(s, r[1], r[2])
        /\ ~(r[1] > 1 /\ IsCodeRun(s, r[1] - 1, r[2]))
        /\ ~(r[2] < Len(s) /\ IsCodeRun(s, r[1], r[2] + 1))}

\* C10: after trimming and deleting "-9" and "4+", parse_numerical_code returns
\* exactly one (zero-padded) token for each maximal run of digits followed by
\* x/X in any mix of case, and nothing else.
C10_OneTokenPerMaximalRun ==
    (pc = "done" /\ input.op = "parse_numerical_code"
        /\ input.code_regex_pattern = "default")
    => LET s == Remove2(Remove2(strip(str(input.candidates_str)), <<"-", "9">>), <<"4", "+">>)
       IN  result.members =
               {zfill(SubSeq(s, r[1], r[2]), input.padding) : r \in MaximalRuns(s)}

\* parse_numerical_code has returned, the regular expression being the default one.
TokenizerReturned ==
    pc = "done" /\ input.op = "parse_numerical_code" /\ input.code_regex_pattern = "default"

IsWhitespace(s) == \A i \in 1..Len(s) : s[i] \in Whitespace

\* s is a Sentinel Invalid Value, bare or with whitespace on either side.
IsSentinel(s) ==
    \E i \in 0..Len(s), j \in 0..Len(s) :
        /\ i <= j
        /\ IsWhitespace(SubSeq(s, 1, i))
        /\ SubSeq(s, i + 1, j) \in INVALID_VALUES
        /\ IsWhitespace(SubSeq(s, j + 1, Len(s)))

\* C11: for every Sentinel Invalid Value (None included), with or without
\* whitespace around it, parse_numerical_code returns the empty set.
C11_SentinelsGiveEmptySet ==
    (/\ pc = "done"
     /\ input.op = "parse_numerical_code"
     /\ \/ input.candidates_str.type = "NoneType"
        \/ input.candidates_str.type = "str" /\ IsSentinel(input.candidates_str.value))
    => result = [shape |-> "set", members |-> {}]

\* " -9" followed by a tab has been parsed.
C11_Witness ==
    /\ pc = "done"
    /\ input.op = "parse_numerical_code"
    /\ input.candidates_str = [type |-> "str", value |-> <<" ", "-", "9", "\t">>]
    /\ result = [shape |-> "set", members |-> {}]

\* m with "0" characters added on the left up to width characters.
LeftPadded(m, width) ==
    IF Len(m) < width THEN [i \in 1..(width - Len(m)) |-> "0"] \o m ELSE m

\* The matches re.findall extracts from the cleaned-up string.
Matches(v) ==
    LET m == findall(Remove2(Remove2(strip(str(v)), <<"-", "9">>), <<"4", "+">>), 1)
    IN  {m[k] : k \in 1..Len(m)}

\* The decimal numeral of an integer.
Numeral(k) == IF k < 0 THEN <<"-">> \o IntToStr(0 - k) ELSE IntToStr(k)

\* C12: every token parse_numerical_code returns is at least `padding` long; a
\* match shorter than the width is left-padded with "0" to exactly the width and
\* a match of the width or longer is returned unchanged; an integer k gives the
\* result of the string form of k.
C12_ZeroPadding ==
    TokenizerReturned =>
        /\ \A t \in result.members : Len(t) >= input.padding
        /\ result.members = {LeftPadded(m, input.padding) : m \in Matches(input.candidates_str)}
        /\ input.candidates_str.type = "int" =>
               result.members =
                   parse_numerical_code([type |-> "str",
                                         value |-> Numeral(input.candidates_str.number)],
                                        input.code_regex_pattern, input.padding).value

\* The integer 1420 has been parsed at the default width and came back as "01420".
C12_Witness ==
    /\ TokenizerReturned
    /\ input.candidates_str = [type |-> "int", number |-> 1420]
    /\ input.padding = EXPECTED_CODE_LENGTH
    /\ result.members = {<<"0", "1", "4", "2", "0">>}

(***************************************************************************)
(* Properties of the Expander                                              *)
(***************************************************************************)
\* C13: expand_to_n_digit_str(token, n) returns {token} when len(token) >= n, and
\* otherwise exactly the 10^(n - len(token)) strings of length n that start with
\* token and hold only digits after it.
C13_ExpanderEnumeratesAll ==
    (pc = "done" /\ input.op = "expand_to_n_digit_str")
    => IF Len(input.input_str) >= input.n
       THEN result.members = {input.input_str}
       ELSE /\ Cardinality(result.members) = Pow10(input.n - Len(input.input_str))
            /\ \A c \in result.members :
                   /\ Len(c) = input.n
                   /\ IsPrefix(input.input_str, c)
                   /\ \A i \in (Len(input.input_str) + 1)..Len(c) : c[i] \in Digits

\* "86" has been expanded to four digits: 100 codes from "8600" to "8699".
C13_Witness ==
    /\ pc = "done"
    /\ input.op = "expand_to_n_digit_str"
    /\ input.input_str = <<"8", "6">>
    /\ input.n = 4
    /\ Cardinality(result.members) = 100
    /\ {<<"8", "6", "0", "0">>, <<"8", "6", "9", "9">>} \subseteq result.members

(***************************************************************************)
(* Properties of Normalized Codes                                          *)
(***************************************************************************)
UppercaseLetters ==
    {"A", "B", "C", "D", "E", "F", "G", "H", "I", "J", "K", "L", "M",
     "N", "O", "P", "Q", "R", "S", "T", "U", "V", "W", "X", "Y", "Z"}

\* c is a Normalized Code of digit-width n.
IsNormalized(c, n) ==
    /\ c \in VALID_SIC_CODES
    /\ IF n > 0 THEN Len(c) = n /\ \A i \in 1..Len(c) : c[i] \in Digits
       ELSE Len(c) = 1 /\ c[1] \in UppercaseLetters

\* The codes an operation returned as valid.
ValidCodes == IF result.shape = "tuple" THEN result.cleaned_set ELSE result.members

LeadingDigits(t) == Cardinality({k \in 1..Len(t) : \A i \in 1..k : t[i] \in Digits})

\* The sections the division -> section table assigns to the divisions D.
SectionsOf(D) == {get_sic_section(d) : d \in D} \ {<< >>}

\* get_clean_n_digit_one_code(token, 0) has returned.
SectionReturned ==
    pc = "done" /\ input.op = "get_clean_n_digit_one_code" /\ input.n = 0

\* A one-digit token returns the sections of its ten divisions that have an entry.
OneDigitSections ==
    LET t == input.input_str
    IN  (LeadingDigits(t) = 1 /\ IsCodeRun(t, 1, Len(t)))
        => result.members = SectionsOf({10 * DigitValue(t[1]) + j : j \in 0..9})

RawCodeOf(i) == Get(Records[i], "code", << >>)

\* The candidates whose code cleans to nothing.
Unresolvable == {i \in DictIndexes : CodesOf(i) = {}}

\* C16: the Resolver's invalid set holds the raw code of every candidate whose
\* code cleans to nothing (and nothing else), every other candidate's codes are
\* in the merged code map, and a non-empty merged map gives a non-empty valid
\* set next to the invalid set, whichever branch of the pruning rule is taken.
C16_InvalidAccumulation ==
    ResolverReturned =>
        /\ result.invalid_set = {RawCodeOf(i) : i \in Unresolvable}
        /\ \A i \in DictIndexes \ Unresolvable : CodesOf(i) \subseteq DOMAIN cleaned
        /\ DOMAIN cleaned # {} => result.cleaned_set # {}

\* An unresolvable candidate came before a valid one, and the single survivor
\* of the threshold was returned: both sets are populated.
C16_Witness ==
    /\ ResolverReturned
    /\ Len(Records) = 2
    /\ 1 \in Unresolvable
    /\ 2 \in DictIndexes \ Unresolvable
    /\ Cardinality(Survivors) = 1
    /\ result.cleaned_set = Survivors
    /\ result.invalid_set = {RawCodeOf(1)}

C18_NoPruningAtOrBelowZero ==
    (ResolverReturned /\ input.threshold <= 0) => result.cleaned_set = AllCleaned

(***************************************************************************)
(* Properties of the log                                                   *)
(***************************************************************************)
\* The warning names the raw token t.
Names(entry, t) ==
    IF entry.msg = "has no valid codes" THEN entry.arg = t
    ELSE IF entry.msg = "invalid codes" THEN t \in entry.arg
    ELSE FALSE

\* The number of warnings in the log that name t.
NamedCount(t) == Cardinality({k \in 1..Len(log) : Names(log[k], t)})

Occurrences(items, t) == Cardinality({k \in 1..Len(items) : items[k] = t})

\* Each token of items that does not clean to any n-digit code is named by one
\* warning for each time it was given, and no other token is named.
LoggedOncePerRejection(items, n) ==
    \A k \in 1..Len(items) :
        NamedCount(items[k]) =
            IF get_clean_n_digit_one_code(items[k], n) = {} THEN Occurrences(items, items[k])
            ELSE 0

\* A type mismatch left exactly one warning, about the type.
LoggedTypeMismatch ==
    Len(log) = 1 /\ log[1].msg \in {"Expected a list or set of strings", "Expected a list of dicts"}

\* The Set Cleaner's log after its first call.
SetCleanerLogs ==
    (pc = "done" /\ input.op = "get_clean_n_digit_codes" /\ ~input.again)
    => IF input.input_list.type \in {"str", "list", "set"}
       THEN LoggedOncePerRejection(Items(input.input_list), input.n)
       ELSE LoggedTypeMismatch

\* The Resolver's log.
ResolverLogs ==
    (pc = "done" /\ input.op = "extract_alt_candidates_n_digit_codes"
        /\ input.alt_candidates.type # "str")
    => IF input.alt_candidates.type \in {"list", "tuple"}
       THEN LoggedOncePerRejection([k \in 1..Cardinality(DictIndexes) |->
                                       RawCodeOf(SetToSeq(DictIndexes)[k])], input.n)
       ELSE LoggedTypeMismatch

\* The Classifier's log: the tokens its first re-cleaning (at 5 digits) rejected.
ClassifierLogs ==
    (pc = "done" /\ input.op = "get_codability_level" /\ ~Falsy(input.codes))
    => IF input.codes.type \in {"str", "list", "set"}
       THEN LoggedOncePerRejection(Items(input.codes), LEVELS[1].digits)
       ELSE LoggedTypeMismatch

\* C19: every raw token the Set Cleaner, the Resolver or the Classifier's
\* re-cleaning rejects, and every type mismatch, leaves exactly one warning that
\* names it: no rejection is silent and none is logged twice.
C19_EveryRejectionLoggedOnce == SetCleanerLogs /\ ResolverLogs /\ ClassifierLogs

(***************************************************************************)
(* Properties of the Set Cleaner's input types                             *)
(***************************************************************************)
\* get_clean_n_digit_codes has returned from the caller's first call.
SetCleanerDone ==
    pc = "done" /\ input.op = "get_clean_n_digit_codes" /\ ~input.again

C21_UnusablePatternLogsAndReturnsEmpty ==
    (/\ pc = "done"
     /\ input.op = "parse_numerical_code"
     /\ input.code_regex_pattern # "default"
     /\ strip(str(input.candidates_str)) \notin INVALID_VALUES)
    => /\ result = [shape |-> "set", members |-> {}]
       /\ Len(log) = 1
       /\ log[1].msg = "Error parsing numerical codes"

(***************************************************************************)
(* Properties of the Resolver's input shapes                               *)
(***************************************************************************)
\* The Resolver has returned from a call that gave it a plain string.
ResolvedString ==
    /\ pc = "done"
    /\ input.op = "extract_alt_candidates_n_digit_codes"
    /\ input.alt_candidates.type = "str"

\* Set Cleaner(Tokenizer(s), n): what it returns.
CleanedTokensOf(s, n) ==
    get_clean_n_digit_codes(
        [type |-> "set",
         members |-> parse_numerical_code([type |-> "str", value |-> s], "default",
                                          EXPECTED_CODE_LENGTH).value], n).value

\* C22: given a plain string s, the Resolver returns exactly
\* Set Cleaner(Tokenizer(s), n), whatever the threshold is.
C22_StringShortCircuit ==
    ResolvedString => result = CleanedTokensOf(input.alt_candidates.value, input.n)

\* "1420" was given with a threshold above every likelihood: "01420" is valid.
C22_Witness ==
    /\ ResolvedString
    /\ input.alt_candidates.value = <<"1", "4", "2", "0">>
    /\ input.n = EXPECTED_CODE_LENGTH
    /\ input.threshold = 9
    /\ result = Pair({<<"0", "1", "4", "2", "0">>}, {})

(***************************************************************************)
(* Properties of the model-code preparation                                *)
(***************************************************************************)
\* prep_model_codes has returned its frame, both code columns being in use.
PrepReturned ==
    /\ pc = "done"
    /\ input.op = "prep_model_codes"
    /\ result.shape = "frame"
    /\ cfg.codes_col # "None"
    /\ cfg.alt_codes_col # "None"

\* (Vp, Ip): the Set Cleaner's result for the tokenized primary code of a row.
PrimaryPair(row) ==
    get_clean_n_digit_codes(
        [type |-> "set",
         members |-> parse_numerical_code(row.initial_code, "default",
                                          EXPECTED_CODE_LENGTH).value], cfg.digits).value

\* (Va, Ia): the Resolver's result for the alternative candidates of a row.
AlternativePair(row) ==
    extract_alt_candidates_n_digit_codes(row.alt_sic_candidates, cfg.digits,
                                         cfg.threshold).out.value

\* C23: for each record prep_model_codes outputs (Vp, Ip) when Vp is not empty,
\* ignoring the alternatives, and (Va, Ip union Ia) when Vp is empty: the
\* primary's invalid tokens are never overwritten by the fallback.
C23_PrimaryFirst ==
    PrepReturned =>
        \A i \in 1..Len(input.input_df.rows) :
            LET row == input.input_df.rows[i]
                p == PrimaryPair(row)
                a == AlternativePair(row)
            IN  /\ result.rows[i].unique_id = i
                /\ PairOf(result.rows[i]) =
                       IF p.cleaned_set # {} THEN p
                       ELSE Pair(a.cleaned_set, p.invalid_set \cup a.invalid_set)

\* A row whose primary code is unregistered was filled from its alternatives
\* and keeps the primary's invalid token next to the alternatives' one.
C23_Witness ==
    /\ PrepReturned
    /\ \E i \in 1..Len(result.rows) :
           /\ PrimaryPair(input.input_df.rows[i]) = Pair({}, {Code(12345, 5)})
           /\ result.rows[i].model_codes = {Code(86210, 5)}
           /\ result.rows[i].model_codes_invalid = {Code(12345, 5), <<"B", "a", "d", "1">>}

(***************************************************************************)
(* Properties of the serialization                                         *)
(***************************************************************************)
\* All the members of the sets and lists of a collection.
MembersOf(data_structure) ==
    UNION {TokensOf(data_structure[i]) : i \in 1..Len(data_structure)}

\* The orderings of 1..k.
Orderings(k) == {f \in [1..k -> 1..k] : \A i \in 1..k : \E j \in 1..k : f[j] = i}

\* flatten_to_sorted_list has returned for a collection of comparable items.
FlattenedComparable ==
    /\ pc = "done"
    /\ input.op = "flatten_to_sorted_list"
    /\ Comparable(MembersOf(input.data_structure))

\* C24: for a collection of sets and lists of mutually comparable items
\* flatten_to_sorted_list returns the ascending list, without duplicates, of all
\* the members, and the same list for every permutation of the collection.
C24_SortedAndOrderIndependent ==
    FlattenedComparable =>
        LET d == input.data_structure
            r == result.items
        IN  /\ {r[i] : i \in 1..Len(r)} = MembersOf(d)
            /\ \A i \in 1..(Len(r) - 1) : r[i].key < r[i + 1].key
            /\ \A f \in Orderings(Len(d)) :
                   flatten_to_sorted_list([i \in 1..Len(d) |-> d[f[i]]]) = r

\* Two parts sharing a member, given in descending order, came back as 1, 2, 5.
C24_Witness ==
    /\ FlattenedComparable
    /\ Len(input.data_structure) = 2
    /\ input.data_structure[1].type = "set"
    /\ TokensOf(input.data_structure[1]) \cap TokensOf(input.data_structure[2]) # {}
    /\ result.items = <<[type |-> "int", key |-> 1], [type |-> "int", key |-> 2],
                        [type |-> "int", key |-> 5]>>

(***************************************************************************)
(* Properties of the arguments                                             *)
(***************************************************************************)
\* C25: no operation changes an argument of its caller: the collections, the
\* candidate records and the configuration object passed in are, at every step
\* of every operation, what the caller passed.
C25_NoMutationOfInputs == [][input' = input]_vars

(***************************************************************************)
(* Further properties of the Resolver                                      *)
(***************************************************************************)
\* C26: a candidate record whose code field is missing or holds a Sentinel
\* Invalid Value is not treated as data by the Resolver: it adds nothing to the
\* valid set and nothing to the invalid set.
C26_SentinelCandidatesIgnored ==
    ResolverReturned =>
        \A i \in DictIndexes :
            IsSentinel(RawCodeOf(i)) =>
                /\ CodesOf(i) = {}
                /\ RawCodeOf(i) \notin result.invalid_set

\* The candidate list in the ordering f.
Reordered(f) ==
    [input.alt_candidates EXCEPT !.items = [i \in 1..Len(Records) |-> Records[f[i]]]]

C28_SurvivorIsTopPick ==
    (ResolverReturned /\ Cardinality(result.cleaned_set) = 1 /\ Cardinality(DOMAIN cleaned) >= 2) =>
        \A code \in result.cleaned_set :
            /\ code \in DOMAIN cleaned
            /\ cleaned[code] >= input.threshold
            /\ \A other \in DOMAIN cleaned \ {code} :
                   /\ cleaned[other] < input.threshold
                   /\ cleaned[other] < cleaned[code]

\* One code was returned out of a merged map of several, one of which had
\* reached the survivor's likelihood before a weaker candidate repeated it.
C28_Witness ==
    /\ ResolverReturned
    /\ Cardinality(result.cleaned_set) = 1
    /\ Cardinality(DOMAIN cleaned) >= 2
    /\ Len(Records) = 2
    /\ DictIndexes = {1, 2}
    /\ result.cleaned_set = CodesOf(1)
    /\ CodesOf(1) \subseteq CodesOf(2)
    /\ LikelihoodOf(2) < LikelihoodOf(1)

(***************************************************************************)
(* Further properties of the Classifier                                    *)
(***************************************************************************)
\* C29: within one run of get_codability_level, after the first (5-digit)
\* re-clean the working set never grows from one level to the next coarser
\* level, each code of the finer level giving at most one code of the coarser
\* level; an empty working set stays empty, and the run then ends with
\* "Uncodable".
C29_WorkingSetOnlyShrinks ==
    [][(pc = "loop" /\ level > 1) =>
          /\ Cardinality(TokensOf(codes')) <= Cardinality(TokensOf(codes))
          /\ \A code \in TokensOf(codes) :
                 Cardinality(get_clean_n_digit_one_code(code, LEVELS[level].digits)) <= 1
          /\ TokensOf(codes) = {} =>
                 /\ TokensOf(codes') = {}
                 /\ pc' = "done" => result'.label = "Uncodable"]_vars

\* Two divisions of one section: the working set went from the six codes of the
\* first re-clean down to the one section letter.
C29_Witness ==
    /\ pc = "done"
    /\ input.op = "get_codability_level"
    /\ input.codes.type = "set"
    /\ \A t \in TokensOf(input.codes) : Len(t) = 2
    /\ Cardinality(get_clean_n_digit_codes(input.codes, 5).value.cleaned_set) = 6
    /\ Cardinality(TokensOf(codes)) = 1
    /\ result.label = "Section (letter)"

\* The one-record candidate list [{code: t}], without a likelihood.
OneRecord(t) == [type |-> "list", items |-> <<[type |-> "dict", code |-> t]>>]

\* s is a single raw code token: one run of digits and wildcards, nothing else.
IsSingleToken(s) == findall(s, 1) = <<s>>

\* C30: for every single raw code token t and every n, the Resolver given t as
\* a plain string returns the same pair as the Resolver given the one-record
\* list [{code: t}] at threshold 0, tokens shorter than five characters included.
C30_StringAsOneRecord ==
    (ResolvedString /\ IsSingleToken(input.alt_candidates.value)) =>
        result = extract_alt_candidates_n_digit_codes(OneRecord(input.alt_candidates.value),
                                                      input.n, 0).out.value
====
